---- MODULE Spec2Model ----
(***************************************************************************)
(* Model of the EziPay relay server (src/server.js): the access-token      *)
(* cache, the withdrawal workflow (create / approve / reject) and the      *)
(* payment flows (create / status poll), over a document store and a       *)
(* payment gateway that may both fail.                                     *)
(*                                                                         *)
(* Every handler is an async function.  It is cut at its await points: an  *)
(* action fires when the awaited store or gateway operation completes,     *)
(* applies the operation's effect with the outcome chosen                  *)
(* nondeterministically, and runs the handler's code up to the next await  *)
(* or to the response.  Handlers of different requests interleave at       *)
(* these points only, as they do on the Node.js event loop.                *)
(***************************************************************************)
EXTENDS Integers, Sequences, FiniteSets, TLC

\* Bounds of the model.
MaxCalls == 3          \* handler invocations of one run
MaxConcurrent == 2     \* handler invocations in progress at one time
MaxWithdrawals == 1    \* documents of the withdrawals collection
MaxPayments == 1       \* documents of the payments collection
MaxPayCalls == 2       \* invocations of the payment routes in one run
MaxTime == 2           \* hours that pass in one run

VARIABLES
    accessToken,     \* line 34: cached bearer token (a JS value, null at start)
    tokenExpiry,     \* line 35: <<>> for null, <<t>> for the expiry time t
    now,             \* Date.now(), in hours
    withdrawals,     \* the withdrawals collection: document id = index
    payments,        \* the payments collection
    clock,           \* the store's server time: FieldValue.serverTimestamp()
    calls,           \* the handler invocations in progress and their local state
    started,         \* the number of handler invocations so far
    last,            \* the latest response sent, and the call it answers
    sendMoneyCalls,  \* per withdrawal id, the POST send-money/create requests issued
    successes        \* per withdrawal id and admin route, the 200 responses sent

vars == <<accessToken, tokenExpiry, now, withdrawals, payments, clock, calls,
          started, last, sendMoneyCalls, successes>>

\* The slots of the invocations in progress.
Calls == 1..MaxConcurrent

(***************************************************************************)
(* JavaScript values.  A value is a record of a type tag t, a number n and *)
(* a sequence of strings s: the characters of a string (a literal whose    *)
(* characters are never inspected is written as one element), or the       *)
(* fields of an object that is a gateway reply body.                       *)
(***************************************************************************)
JsVal(t, n, s) == [t |-> t, n |-> n, s |-> s]
Undefined == JsVal("undefined", 0, <<>>)
Null == JsVal("null", 0, <<>>)
NaN == JsVal("number", 0, <<"NaN">>)
Num(n) == JsVal("number", n, <<>>)
Str(s) == JsVal("string", 0, s)
Obj(s) == JsVal("object", 0, s)

\* ToBoolean: what `!v` and `v || w` test.
Truthy(v) ==
    CASE v.t = "undefined" -> FALSE
      [] v.t = "null" -> FALSE
      [] v.t = "number" -> v # NaN /\ v.n # 0
      [] v.t = "string" -> Len(v.s) > 0
      [] OTHER -> TRUE

\* a || b
Or(a, b) == IF Truthy(a) THEN a ELSE b

Digits == <<"0", "1", "2", "3", "4", "5", "6", "7", "8", "9">>
IsDigit(ch) == \E d \in 1..10 : Digits[d] = ch
DigitVal(ch) == (CHOOSE d \in 1..10 : Digits[d] = ch) - 1

RECURSIVE DigitsValue(_, _, _)
DigitsValue(s, i, acc) ==
    IF i > Len(s) \/ ~IsDigit(s[i]) THEN acc
    ELSE DigitsValue(s, i + 1, acc * 10 + DigitVal(s[i]))

\* parseInt(v): a number is returned as it is (the model has integers only),
\* a string is read as an optional sign and its leading digits, anything else
\* and a string without a leading digit is NaN.
ParseInt(v) ==
    IF v.t = "number" THEN v
    ELSE IF v.t # "string" THEN NaN
    ELSE LET first == IF Len(v.s) > 0 /\ v.s[1] \in {"-", "+"} THEN 2 ELSE 1
             sign == IF Len(v.s) > 0 /\ v.s[1] = "-" THEN -1 ELSE 1
         IN IF first > Len(v.s) \/ ~IsDigit(v.s[first]) THEN NaN
            ELSE Num(sign * DigitsValue(v.s, first, 0))

(***************************************************************************)
(* The gateway's replies and the errors a handler can catch.               *)
(***************************************************************************)
\* A reply body {status, message, data, error}: s = <<status, message, data,
\* error>>, where "" stands for a field the body does not have and data is
\* what the handlers read in data: the grant_id of a created transaction,
\* the status of a polled one; n is data.fees.
Body(status, message, data, error) == Obj(<<status, message, data, error>>)
\* {status: 'success', data: {...}}.
SuccessBody == Body("success", "", "data", "")
\* {status: 'error', message: ...}: with a 2xx code it is what axios
\* resolves to, with a 4xx/5xx code it is error.response.data.
ErrorBody == Body("error", "Insufficient balance", "", "")

\* body.status
BodyStatus(b) == IF b.t = "object" THEN b.s[1] ELSE ""
\* IsSuccess testing the status for truthiness instead of comparing it.
IsSuccessLoose(b) == BodyStatus(b) # ""
\* body.status === 'success' (lines 49, 103, 252)
IsSuccess(b) == BodyStatus(b) = "success"
\* body?.message
BodyMessage(b) ==
    IF b.t = "object" /\ b.s[2] # "" THEN Str(<<b.s[2]>>) ELSE Undefined
\* body.data is present
HasData(b) == b.t = "object" /\ b.s[3] # ""
\* body.data
BodyData(b) == IF HasData(b) THEN JsVal("object", b.n, <<b.s[3]>>) ELSE Undefined
\* body.error is truthy
HasError(b) == b.t = "object" /\ b.s[4] # ""

\* An error object: response is error.response?.data, message is error.message.
Error(response, message) == [response |-> response, message |-> Str(<<message>>)]
NoError == [response |-> Undefined, message |-> Undefined]
HttpError == Error(ErrorBody, "Request failed with status code 400")
NetworkError == Error(Undefined, "Network Error")
StoreError == Error(Undefined, "store unavailable")
TokenError == Error(Undefined, "Failed to get access token")
\* The ways an axios request rejects.
GatewayFailures == {HttpError, NetworkError}

\* error.response?.data || error.message
Details(e) == Or(e.response, e.message)
\* error.response?.data?.message || error.message
ErrorMessage(e) == Or(BodyMessage(e.response), e.message)

(***************************************************************************)
(* Withdrawal documents.  A field a document does not have reads as        *)
(* Undefined; a timestamp field is <<>> for null and <<t>> for time t.     *)
(***************************************************************************)
NoDoc ==
    [email_or_phone |-> Undefined, currency |-> Undefined, amount |-> Undefined,
     payment_method_id |-> Undefined, moncash_account_number |-> Undefined,
     userId |-> Undefined, userEmail |-> Undefined, receiver_info |-> Undefined,
     status |-> "", created_at |-> <<>>, processed_at |-> <<>>,
     processed_by |-> Undefined, ezipay_response |-> Undefined,
     error_message |-> Undefined, rejection_reason |-> Undefined]

\* The document of lines 257-270.
NewWithdrawal(body, verifyData, ts) ==
    [NoDoc EXCEPT
       !.email_or_phone = body.email_or_phone,
       !.currency = body.currency,
       !.amount = ParseInt(body.amount),
       !.payment_method_id = ParseInt(body.payment_method_id),
       !.moncash_account_number = Or(body.moncash_account_number, Null),
       !.userId = Or(body.userId, Null),
       !.userEmail = Or(body.userEmail, Null),
       !.receiver_info = verifyData,
       !.status = "pending",
       !.created_at = ts,
       !.processed_at = <<>>,
       !.processed_by = Null]

\* update() of lines 369-374: the named fields are replaced, the others kept.
ApprovedUpdate(doc, ts, adminId, responseData) ==
    [doc EXCEPT
       !.status = "approved",
       !.processed_at = ts,
       !.processed_by = Or(adminId, Str(<<"admin">>)),
       !.ezipay_response = responseData]

\* FailedUpdate without its error_message field.
FailedUpdateNoMessage(doc, ts, error) ==
    [doc EXCEPT !.status = "failed", !.processed_at = ts]

\* update() of lines 394-398.
FailedUpdate(doc, ts, error) ==
    [doc EXCEPT
       !.status = "failed",
       !.processed_at = ts,
       !.error_message = ErrorMessage(error)]

\* RejectedUpdate without its processed_at field.
RejectedUpdateNoTime(doc, ts, adminId, reason) ==
    [doc EXCEPT
       !.status = "rejected",
       !.processed_by = Or(adminId, Str(<<"admin">>)),
       !.rejection_reason = Or(reason, Str(<<"No reason provided">>))]

\* update() of lines 429-434.
RejectedUpdate(doc, ts, adminId, reason) ==
    [doc EXCEPT
       !.status = "rejected",
       !.processed_at = ts,
       !.processed_by = Or(adminId, Str(<<"admin">>)),
       !.rejection_reason = Or(reason, Str(<<"No reason provided">>))]

\* withdrawalDoc.exists
Exists(id) == id \in 1..Len(withdrawals)

(***************************************************************************)
(* Requests.  A request carries req.params.id and the fields of req.body;  *)
(* a field the request does not send is Undefined.                         *)
(***************************************************************************)
NoBody ==
    [email_or_phone |-> Undefined, currency |-> Undefined, amount |-> Undefined,
     payment_method_id |-> Undefined, moncash_account_number |-> Undefined,
     userId |-> Undefined, userEmail |-> Undefined, adminId |-> Undefined,
     reason |-> Undefined, metadata |-> Undefined, transactionId |-> Undefined]

ValidWithdrawal ==
    [NoBody EXCEPT
       !.email_or_phone = Str(<<"a@b.com">>),
       !.currency = Str(<<"HTG">>),
       !.amount = Num(500),
       !.payment_method_id = Num(3)]

\* The bodies of POST /api/withdrawal/request the model sends: a JSON body
\* carries numbers, a form-encoded one (line 10) carries strings.
WithdrawalBodies ==
    { ValidWithdrawal,
      [ValidWithdrawal EXCEPT !.amount = Str(<<"5", "0", "0">>),
                              !.payment_method_id = Str(<<"3">>),
                              !.moncash_account_number = Str(<<"50937000000">>),
                              !.userId = Str(<<"u1">>)],
      [ValidWithdrawal EXCEPT !.amount = Num(0)],
      [ValidWithdrawal EXCEPT !.amount = Str(<<"0">>)],
      [ValidWithdrawal EXCEPT !.amount = Num(-5)],
      [ValidWithdrawal EXCEPT !.payment_method_id = Str(<<"x">>)],
      [ValidWithdrawal EXCEPT !.currency = Undefined],
      [ValidWithdrawal EXCEPT !.currency = Str(<<>>)] }

\* The bodies the workflow's documents are created from.
WorkflowBodies == { ValidWithdrawal }

\* The bodies of the admin routes: adminId and reason are optional.
ApproveBodies == { NoBody, [NoBody EXCEPT !.adminId = Str(<<"alice">>)] }
RejectBodies ==
    { NoBody,
      [NoBody EXCEPT !.adminId = Str(<<"bob">>), !.reason = Str(<<"duplicate">>)] }

\* The ids the admin routes are called with: every id the collection can
\* hold, so also ids that do not exist (yet).
Ids == 1..MaxWithdrawals

(***************************************************************************)
(* Handler invocations.                                                    *)
(***************************************************************************)
NoRes == [code |-> 0, error |-> "", payload |-> Undefined]

\* Lines 490-495: the four queries of the stats route, and their snapshots
\* while none has resolved: <<>> for an outstanding query, <<docs>> for the
\* snapshot docs of a resolved one.
StatsQueries == {"total", "pending", "approved", "rejected"}
NoSnaps == [q \in StatsQueries |-> <<>>]

Idle ==
    [kind |-> "", pc |-> "idle", id |-> 0, body |-> NoBody,
     withdrawal |-> NoDoc, token |-> Undefined, response |-> Undefined,
     error |-> NoError, res |-> NoRes,
     startStatus |-> "", gateway |-> "", snaps |-> NoSnaps]

\* A handler invoked with req.params.id = id and req.body = body, suspended
\* at its await labelled pc.  startStatus and gateway are history fields:
\* the status of the addressed document when the call started, and the
\* outcome of the call's gateway request ("" while there is none, the
\* status of the reply body when axios resolved, "rejected" when it
\* rejected).
Invoke(kind, id, body, pc) ==
    [Idle EXCEPT !.kind = kind, !.pc = pc, !.id = id, !.body = body,
                 !.startStatus = IF Exists(id) THEN withdrawals[id].status ELSE ""]

\* res.status(code).json({error, details}) or res.json(payload): the handler
\* is over.
Respond(call, code, error, payload) ==
    [call EXCEPT !.pc = "done",
                 !.res = [code |-> code, error |-> error, payload |-> payload],
                 !.withdrawal = NoDoc, !.token = Undefined, !.error = NoError]

\* A call starts in the first free slot: which slot a call runs in is only
\* a name.
CanStart(c) ==
    /\ started < MaxCalls
    /\ calls[c].pc = "idle"
    /\ \A d \in Calls : d < c => calls[d].pc # "idle"

\* The call in slot c moves on to the state new.  When new has responded,
\* the response is recorded in last and counted, and the slot is free again.
Step(c, new) ==
    /\ calls' = [calls EXCEPT ![c] = IF new.pc = "done" THEN Idle ELSE new]
    /\ started' = IF calls[c].pc = "idle" THEN started + 1 ELSE started
    /\ last' = IF new.pc = "done" THEN new ELSE last
    /\ successes' =
         IF new.pc = "done" /\ new.res.code = 200 /\ new.kind \in {"approve", "reject"}
         THEN [successes EXCEPT ![new.id][new.kind] = @ + 1]
         ELSE successes

Init ==
    /\ accessToken = Null
    /\ tokenExpiry = <<>>
    /\ now = 0
    /\ withdrawals = <<>>
    /\ payments = <<>>
    /\ clock = 1
    /\ calls = [c \in Calls |-> Idle]
    /\ started = 0
    /\ last = Idle
    /\ sendMoneyCalls = [i \in Ids |-> 0]
    /\ successes = [i \in Ids |-> [approve |-> 0, reject |-> 0]]

(***************************************************************************)
(* getAccessToken, lines 38-59.                                            *)
(***************************************************************************)
\* Line 51: the validity of a token, 2 * 60 * 60 * 1000 ms, in hours.
TokenTTL == 2

\* TokenCached with <= for the < of line 40.
TokenCachedAtExpiry ==
    /\ Truthy(accessToken)
    /\ tokenExpiry # <<>>
    /\ now <= tokenExpiry[1]

\* Line 40: a token is cached and Date.now() is before its expiry.
TokenCached ==
    /\ Truthy(accessToken)
    /\ tokenExpiry # <<>>
    /\ now < tokenExpiry[1]

\* The token the gateway issues, response.data.data.access_token: a new
\* token differs from the one it replaces in the cache.
IssuedToken ==
    IF accessToken = Str(<<"token-A">>) THEN Str(<<"token-B">>)
    ELSE Str(<<"token-A">>)

\* What the awaited POST access-token can come to: a success body with a
\* token, a 2xx body that is no success (line 54 throws), or a rejected
\* request (rethrown at line 57).
TokenOutcomes ==
    {[ok |-> TRUE, error |-> NoError]}
      \cup {[ok |-> FALSE, error |-> e] : e \in GatewayFailures \cup {TokenError}}

\* TokenReply dropping the cached token when the request fails.
TokenReplyClearing(o) ==
    /\ accessToken' = IF o.ok THEN IssuedToken ELSE Null
    /\ tokenExpiry' = IF o.ok THEN <<now + TokenTTL>> ELSE <<>>

\* Lines 49-57: the cache after the token request came to outcome o.
TokenReply(o) ==
    /\ accessToken' = IF o.ok THEN IssuedToken ELSE accessToken
    /\ tokenExpiry' = IF o.ok THEN <<now + TokenTTL>> ELSE tokenExpiry

\* d hours pass: Date.now() of line 40 and line 51 grows.
Tick(d) ==
    /\ now + d <= MaxTime
    /\ now' = now + d
    /\ UNCHANGED <<accessToken, tokenExpiry, withdrawals, payments, clock, calls,
                   started, last, sendMoneyCalls, successes>>

(***************************************************************************)
(* POST /api/admin/withdrawal/approve/:id, lines 325-408.                  *)
(***************************************************************************)
\* Lines 327-331: the handler starts and awaits withdrawalRef.get().
ApproveStart(c, id, body) ==
    /\ CanStart(c)
    /\ Step(c, Invoke("approve", id, body, "get"))
    /\ UNCHANGED <<accessToken, tokenExpiry, now, withdrawals, payments, clock,
                   sendMoneyCalls>>

\* Catch with an update() that never settles.
CatchHanging(call, e) == [call EXCEPT !.pc = "hanging", !.error = e]

\* Lines 389-398: the catch block, up to its awaited update().
Catch(call, e) == [call EXCEPT !.pc = "catch_update", !.error = e]

\* Lines 331-357: get() completes; the guards; getAccessToken() up to its
\* await, or with a cached token on to the payout request.
ApproveGet(c) ==
    /\ calls[c].kind = "approve" /\ calls[c].pc = "get"
    /\ \E ok \in BOOLEAN :
         LET call == calls[c]
             id == call.id
             proceed == ok /\ Exists(id) /\ withdrawals[id].status = "pending"
         IN /\ Step(c,
                  IF ~ok THEN Catch(call, StoreError)
                  ELSE IF ~Exists(id)
                    THEN Respond(call, 404, "Withdrawal not found", Undefined)
                  ELSE IF withdrawals[id].status # "pending"
                    THEN Respond(call, 400, "Withdrawal already processed", Undefined)
                  ELSE IF TokenCached
                    THEN [call EXCEPT !.pc = "send_money",
                                      !.withdrawal = withdrawals[id],
                                      !.token = accessToken]
                  ELSE [call EXCEPT !.pc = "token", !.withdrawal = withdrawals[id]])
            /\ sendMoneyCalls' =
                 IF proceed /\ TokenCached
                 THEN [sendMoneyCalls EXCEPT ![id] = @ + 1] ELSE sendMoneyCalls
    /\ UNCHANGED <<accessToken, tokenExpiry, now, withdrawals, payments, clock>>

\* Lines 344-357: the token request completes; on success the payout
\* request is issued.
ApproveToken(c) ==
    /\ calls[c].kind = "approve" /\ calls[c].pc = "token"
    /\ \E o \in TokenOutcomes :
         LET call == calls[c] IN
         /\ TokenReply(o)
         /\ Step(c,
              IF o.ok THEN [call EXCEPT !.pc = "send_money",
                                        !.token = IssuedToken]
              ELSE Catch(call, o.error))
         /\ sendMoneyCalls' =
              IF o.ok THEN [sendMoneyCalls EXCEPT ![call.id] = @ + 1]
              ELSE sendMoneyCalls
    /\ UNCHANGED <<now, withdrawals, payments, clock>>

\* Lines 357-369: POST send-money/create completes.  axios resolves on any
\* 2xx reply, whatever the status in its body, and rejects otherwise.
ApproveSendMoney(c) ==
    /\ calls[c].kind = "approve" /\ calls[c].pc = "send_money"
    /\ \/ \E data \in {SuccessBody, ErrorBody} :
            Step(c,
               [calls[c] EXCEPT !.pc = "update", !.response = data,
                         !.gateway = "resolved"])
       \/ \E e \in GatewayFailures :
            Step(c,
               [Catch(calls[c], e) EXCEPT !.gateway = "rejected"])
    /\ UNCHANGED <<accessToken, tokenExpiry, now, withdrawals, payments, clock,
                   sendMoneyCalls>>

\* Lines 369-376: update() to approved completes.
ApproveUpdate(c) ==
    /\ calls[c].kind = "approve" /\ calls[c].pc = "update"
    /\ LET call == calls[c]
           id == call.id
       IN \/ /\ withdrawals' = [withdrawals EXCEPT ![id] =
                   ApprovedUpdate(@, <<clock>>, call.body.adminId, call.response)]
             /\ clock' = clock + 1
             /\ Step(c, [call EXCEPT !.pc = "reget"])
          \/ /\ Step(c, Catch(call, StoreError))
             /\ UNCHANGED <<withdrawals, clock>>
    /\ UNCHANGED <<accessToken, tokenExpiry, now, payments, sendMoneyCalls>>

\* Lines 376-388: the second get() completes and the record is returned.
ApproveReget(c) ==
    /\ calls[c].kind = "approve" /\ calls[c].pc = "reget"
    /\ LET call == calls[c] IN
       \/ Step(c,
             Respond(call, 200, "", Str(<<withdrawals[call.id].status>>)))
       \/ Step(c, Catch(call, StoreError))
    /\ UNCHANGED <<accessToken, tokenExpiry, now, withdrawals, payments, clock,
                   sendMoneyCalls>>

\* Lines 393-407: the catch block's update() completes or fails (its failure
\* is logged and dropped: update() of a missing document fails too), and the
\* error is reported.
ApproveCatchUpdate(c) ==
    /\ calls[c].kind = "approve" /\ calls[c].pc = "catch_update"
    /\ LET call == calls[c]
           id == call.id
       IN /\ \/ /\ Exists(id)
                /\ withdrawals' = [withdrawals EXCEPT ![id] =
                      FailedUpdate(@, <<clock>>, call.error)]
                /\ clock' = clock + 1
             \/ UNCHANGED <<withdrawals, clock>>
          /\ Step(c,
                Respond(call, 500, "Failed to process withdrawal",
                        Details(call.error)))
    /\ UNCHANGED <<accessToken, tokenExpiry, now, payments, sendMoneyCalls>>

(***************************************************************************)
(* POST /api/admin/withdrawal/reject/:id, lines 411-453.                   *)
(***************************************************************************)
\* Lines 413-417.
RejectStart(c, id, body) ==
    /\ CanStart(c)
    /\ Step(c, Invoke("reject", id, body, "get"))
    /\ UNCHANGED <<accessToken, tokenExpiry, now, withdrawals, payments, clock,
                   sendMoneyCalls>>

\* Lines 449-452: the catch block.
RejectFailed(call) == Respond(call, 500, "Failed to reject withdrawal", Undefined)

\* Lines 417-429: get() completes; the guards; update() is issued.
RejectGet(c) ==
    /\ calls[c].kind = "reject" /\ calls[c].pc = "get"
    /\ \E ok \in BOOLEAN :
         LET call == calls[c]
             id == call.id
         IN Step(c,
              IF ~ok THEN RejectFailed(call)
              ELSE IF ~Exists(id)
                THEN Respond(call, 404, "Withdrawal not found", Undefined)
              ELSE IF withdrawals[id].status # "pending"
                THEN Respond(call, 400, "Withdrawal already processed", Undefined)
              ELSE [call EXCEPT !.pc = "update", !.withdrawal = withdrawals[id]])
    /\ UNCHANGED <<accessToken, tokenExpiry, now, withdrawals, payments, clock,
                   sendMoneyCalls>>

\* Lines 429-436: update() to rejected completes.
RejectUpdate(c) ==
    /\ calls[c].kind = "reject" /\ calls[c].pc = "update"
    /\ LET call == calls[c]
           id == call.id
       IN \/ /\ withdrawals' = [withdrawals EXCEPT ![id] =
                   RejectedUpdate(@, <<clock>>, call.body.adminId, call.body.reason)]
             /\ clock' = clock + 1
             /\ Step(c, [call EXCEPT !.pc = "reget"])
          \/ /\ Step(c, RejectFailed(call))
             /\ UNCHANGED <<withdrawals, clock>>
    /\ UNCHANGED <<accessToken, tokenExpiry, now, payments, sendMoneyCalls>>

\* Lines 436-448: the second get() completes and the record is returned.
RejectReget(c) ==
    /\ calls[c].kind = "reject" /\ calls[c].pc = "reget"
    /\ LET call == calls[c] IN
       \/ Step(c,
             Respond(call, 200, "", Str(<<withdrawals[call.id].status>>)))
       \/ Step(c, RejectFailed(call))
    /\ UNCHANGED <<accessToken, tokenExpiry, now, withdrawals, payments, clock,
                   sendMoneyCalls>>

(***************************************************************************)
(* POST /api/withdrawal/request, lines 231-287.                            *)
(***************************************************************************)
\* MissingFields without its test of amount.
MissingFieldsNoAmount(body) ==
    \/ ~Truthy(body.email_or_phone)
    \/ ~Truthy(body.currency)
    \/ ~Truthy(body.payment_method_id)

\* Line 235: a required field is missing (falsy).
MissingFields(body) ==
    \/ ~Truthy(body.email_or_phone)
    \/ ~Truthy(body.currency)
    \/ ~Truthy(body.amount)
    \/ ~Truthy(body.payment_method_id)

\* Lines 280-286: the catch block.
CreateFailed(call, e) ==
    Respond(call, 500, "Failed to create withdrawal request", Details(e))

\* The calls of the create route that have not responded yet.
CreatesRunning == Cardinality({c \in Calls : calls[c].kind = "create"})

\* Lines 233-241: validation; getAccessToken() up to its await, or with a
\* cached token on to the verify-receiver request.
CreateStart(c, body) ==
    /\ CanStart(c)
    /\ Len(withdrawals) + CreatesRunning < MaxWithdrawals
    /\ LET call == Invoke("create", 0, body, "verify") IN
       Step(c,
          IF MissingFields(body)
            THEN Respond(call, 400, "Missing required fields", Undefined)
          ELSE IF TokenCached THEN [call EXCEPT !.token = accessToken]
          ELSE [call EXCEPT !.pc = "token"])
    /\ UNCHANGED <<accessToken, tokenExpiry, now, withdrawals, payments, clock,
                   sendMoneyCalls>>

\* Lines 240-241: the token request completes; on success the verify-receiver
\* request is issued.
CreateToken(c) ==
    /\ calls[c].kind = "create" /\ calls[c].pc = "token"
    /\ \E o \in TokenOutcomes :
         /\ TokenReply(o)
         /\ Step(c,
              IF o.ok THEN [calls[c] EXCEPT !.pc = "verify",
                                     !.token = IssuedToken]
              ELSE CreateFailed(calls[c], o.error))
    /\ UNCHANGED <<now, withdrawals, payments, clock, sendMoneyCalls>>

\* Lines 241-257: POST send-money/verify-receiver completes; a reply that
\* is no success ends the call, a success issues the add().
CreateVerify(c) ==
    /\ calls[c].kind = "create" /\ calls[c].pc = "verify"
    /\ \/ \E data \in {SuccessBody, ErrorBody} :
            Step(c,
               IF ~IsSuccess(data)
                 THEN [Respond(calls[c], 400, "Invalid receiver", Undefined)
                         EXCEPT !.response = data, !.gateway = "resolved"]
               ELSE [calls[c] EXCEPT !.pc = "add", !.response = data,
                              !.gateway = "resolved"])
       \/ \E e \in GatewayFailures :
            Step(c,
               [CreateFailed(calls[c], e) EXCEPT !.gateway = "rejected"])
    /\ UNCHANGED <<accessToken, tokenExpiry, now, withdrawals, payments, clock,
                   sendMoneyCalls>>

\* Lines 257-279: add() completes: the store assigns the document its id.
CreateAdd(c) ==
    /\ calls[c].kind = "create" /\ calls[c].pc = "add"
    /\ LET call == calls[c] IN
       \/ /\ withdrawals' = Append(withdrawals,
                NewWithdrawal(call.body, BodyData(call.response), <<clock>>))
          /\ clock' = clock + 1
          /\ Step(c,
                [Respond(call, 200, "", Str(<<"pending">>))
                   EXCEPT !.id = Len(withdrawals) + 1])
       \/ /\ Step(c, CreateFailed(call, StoreError))
          /\ UNCHANGED <<withdrawals, clock>>
    /\ UNCHANGED <<accessToken, tokenExpiry, now, payments, sendMoneyCalls>>

(***************************************************************************)
(* The withdrawal workflow: the create, approve and reject routes, called  *)
(* in any number and order and interleaved at their awaits.                *)
(***************************************************************************)
Next ==
    \/ Tick(TokenTTL)
    \/ \E c \in Calls :
       \/ \E body \in WorkflowBodies : CreateStart(c, body)
       \/ CreateToken(c)
       \/ CreateVerify(c)
       \/ CreateAdd(c)
       \/ \E id \in Ids, body \in ApproveBodies : ApproveStart(c, id, body)
       \/ ApproveGet(c)
       \/ ApproveToken(c)
       \/ ApproveSendMoney(c)
       \/ ApproveUpdate(c)
       \/ ApproveReget(c)
       \/ ApproveCatchUpdate(c)
       \/ \E id \in Ids, body \in RejectBodies : RejectStart(c, id, body)
       \/ RejectGet(c)
       \/ RejectUpdate(c)
       \/ RejectReget(c)

Spec == Init /\ [][Next]_vars

\* The workflow when every awaited gateway and store operation of an Approve
\* call settles: an Approve call suspended at an await is resumed.
ApproveFairness ==
    \A c \in Calls :
       /\ WF_vars(ApproveGet(c))
       /\ WF_vars(ApproveToken(c))
       /\ WF_vars(ApproveSendMoney(c))
       /\ WF_vars(ApproveUpdate(c))
       /\ WF_vars(ApproveReget(c))
       /\ WF_vars(ApproveCatchUpdate(c))

SpecLive == Init /\ [][Next]_vars /\ ApproveFairness

(***************************************************************************)
(* Payment documents and POST /api/payment/create, lines 75-124.           *)
(***************************************************************************)
\* The grant ids the gateway gives to the transactions it creates.
GrantIds == {"g1", "g2"}
\* The reply to transaction/create that creates the transaction g.
TransactionBody(g) == Body("success", "", g, "")
\* response.data.data.grant_id and response.data.data.token
BodyGrantId(b) == Str(<<b.s[3]>>)
BodyToken(b) == Str(<<b.s[3], "token">>)

NoPayment ==
    [grant_id |-> Undefined, token |-> Undefined, amount |-> Undefined,
     currency |-> Undefined, userId |-> Undefined, metadata |-> Undefined,
     status |-> "", created_at |-> <<>>, transaction_id |-> Undefined,
     fees |-> Undefined, updated_at |-> <<>>]

\* The document of lines 104-113.
NewPayment(body, data, ts) ==
    [NoPayment EXCEPT
       !.grant_id = BodyGrantId(data),
       !.token = BodyToken(data),
       !.amount = ParseInt(body.amount),
       !.currency = body.currency,
       !.userId = Or(body.userId, Null),
       !.metadata = Or(body.metadata, Null),
       !.status = "pending",
       !.created_at = ts]

ValidPayment ==
    [NoBody EXCEPT !.amount = Str(<<"2", "5">>), !.currency = Str(<<"HTG">>),
                   !.userId = Str(<<"u1">>)]

\* The bodies of POST /api/payment/create the model sends.
PaymentBodies == { ValidPayment, [ValidPayment EXCEPT !.amount = Undefined] }

\* PayCreateFailed dropping the error and returning the gateway's reply.
PayCreateFailedSilently(call, e) == Respond(call, 200, "", call.response)

\* Lines 117-123: the catch block.
PayCreateFailed(call, e) ==
    Respond(call, 500, "Failed to create payment", Details(e))

\* The calls of the payment-create route that have not responded yet.
PayCreatesRunning == Cardinality({c \in Calls : calls[c].kind = "pay_create"})

\* Lines 77-85: validation; getAccessToken() up to its await, or with a
\* cached token on to the transaction/create request.
PayCreateStart(c, body) ==
    /\ CanStart(c)
    /\ started < MaxPayCalls
    /\ Len(payments) + PayCreatesRunning < MaxPayments
    /\ LET call == Invoke("pay_create", 0, body, "transaction")
           missing == ~Truthy(body.amount) \/ ~Truthy(body.currency)
       IN /\ Step(c,
               IF missing
                 THEN Respond(call, 400, "Amount and currency are required", Undefined)
               ELSE IF TokenCached THEN [call EXCEPT !.token = accessToken]
               ELSE [call EXCEPT !.pc = "token"])
    /\ UNCHANGED <<accessToken, tokenExpiry, now, withdrawals, payments, clock,
                   sendMoneyCalls>>

\* Lines 83-85: the token request completes.
PayCreateToken(c) ==
    /\ calls[c].kind = "pay_create" /\ calls[c].pc = "token"
    /\ \E o \in TokenOutcomes :
         /\ TokenReply(o)
         /\ Step(c,
              IF o.ok THEN [calls[c] EXCEPT !.pc = "transaction",
                                     !.token = IssuedToken]
              ELSE PayCreateFailed(calls[c], o.error))
    /\ UNCHANGED <<now, withdrawals, payments, clock, sendMoneyCalls>>

\* Lines 85-104: POST transaction/create completes; a success reply issues
\* the add(), any other reply is returned as it is (line 116).
PayCreateTransaction(c) ==
    /\ calls[c].kind = "pay_create" /\ calls[c].pc = "transaction"
    /\ \/ \E data \in {TransactionBody(g) : g \in GrantIds} \cup {ErrorBody} :
            Step(c,
               IF IsSuccess(data)
                 THEN [calls[c] EXCEPT !.pc = "add", !.response = data,
                                !.gateway = "resolved"]
               ELSE [Respond(calls[c], 200, "", data)
                       EXCEPT !.response = data, !.gateway = "resolved"])
       \/ \E e \in GatewayFailures :
            Step(c,
               [PayCreateFailed(calls[c], e) EXCEPT !.gateway = "rejected"])
    /\ UNCHANGED <<accessToken, tokenExpiry, now, withdrawals, payments, clock,
                   sendMoneyCalls>>

\* Lines 104-123: add() completes and the gateway's reply is returned, or
\* add() fails and the catch block reports it.
PayCreateAdd(c) ==
    /\ calls[c].kind = "pay_create" /\ calls[c].pc = "add"
    /\ LET call == calls[c] IN
       \/ /\ payments' = Append(payments,
                NewPayment(call.body, call.response, <<clock>>))
          /\ clock' = clock + 1
          /\ Step(c, Respond(call, 200, "", call.response))
       \/ /\ Step(c, PayCreateFailed(call, StoreError))
          /\ UNCHANGED <<payments, clock>>
    /\ UNCHANGED <<accessToken, tokenExpiry, now, withdrawals, sendMoneyCalls>>

(***************************************************************************)
(* GET /api/payment/status/:transactionId, lines 127-164.                  *)
(***************************************************************************)
\* A reply to transaction/get with data.status = st and data.fees = fees.
StatusBody(st, fees) == [Body("success", "", st, "") EXCEPT !.n = fees]
\* A reply with an error field: {error: ...}.
FaultBody == Body("", "", "", "Transaction not found")
\* What axios can resolve transaction/get to: the transaction's status, a
\* body with an error field, a body with neither an error field nor data,
\* an empty body.
StatusReplies ==
    {StatusBody("COMPLETED", 5), StatusBody("Pending", 0), FaultBody, ErrorBody, Null}

\* response.data.data.status and response.data.data.fees
BodyTxStatus(b) == b.s[3]
BodyFees(b) == Num(b.n)

\* String.prototype.toLowerCase, on the statuses the gateway sends.
ToLowerCase(st) ==
    CASE st = "COMPLETED" -> "completed"
      [] st = "Pending" -> "pending"
      [] OTHER -> st

\* Reading data.status of a body without data (line 148).
TypeError == Error(Undefined, "Cannot read properties of undefined (reading 'status')")

\* update() of lines 147-152.
StatusUpdate(doc, ts, transactionId, data) ==
    [doc EXCEPT
       !.status = ToLowerCase(BodyTxStatus(data)),
       !.transaction_id = transactionId,
       !.fees = BodyFees(data),
       !.updated_at = ts]

\* Lines 157-163: the catch block.
PollFailed(call, e) ==
    Respond(call, 500, "Failed to get payment status", Details(e))

\* Lines 129-132: getAccessToken() up to its await, or with a cached token
\* on to the transaction/get request.
PollStart(c, g) ==
    /\ CanStart(c)
    /\ started < MaxPayCalls
    /\ LET call == Invoke("poll", 0, [NoBody EXCEPT !.transactionId = Str(<<g>>)],
                          "transaction")
       IN Step(c,
             IF TokenCached THEN [call EXCEPT !.token = accessToken]
             ELSE [call EXCEPT !.pc = "token"])
    /\ UNCHANGED <<accessToken, tokenExpiry, now, withdrawals, payments, clock,
                   sendMoneyCalls>>

\* Lines 130-132: the token request completes.
PollToken(c) ==
    /\ calls[c].kind = "poll" /\ calls[c].pc = "token"
    /\ \E o \in TokenOutcomes :
         /\ TokenReply(o)
         /\ Step(c,
              IF o.ok THEN [calls[c] EXCEPT !.pc = "transaction",
                                     !.token = IssuedToken]
              ELSE PollFailed(calls[c], o.error))
    /\ UNCHANGED <<now, withdrawals, payments, clock, sendMoneyCalls>>

\* Lines 132-144: GET transaction/get completes; a body without an error
\* field issues the query, any other reply is returned as it is (line 156).
PollTransaction(c) ==
    /\ calls[c].kind = "poll" /\ calls[c].pc = "transaction"
    /\ \/ \E data \in StatusReplies :
            Step(c,
               IF Truthy(data) /\ ~HasError(data)
                 THEN [calls[c] EXCEPT !.pc = "query", !.response = data,
                                !.gateway = "resolved"]
               ELSE [Respond(calls[c], 200, "", data)
                       EXCEPT !.response = data, !.gateway = "resolved"])
       \/ \E e \in GatewayFailures :
            Step(c,
               [PollFailed(calls[c], e) EXCEPT !.gateway = "rejected"])
    /\ UNCHANGED <<accessToken, tokenExpiry, now, withdrawals, payments, clock,
                   sendMoneyCalls>>

\* Lines 144-156: the query where(grant_id == transactionId).limit(1)
\* completes.  Without a match the reply is returned; with one the update's
\* fields are read from the reply (a TypeError when it has no data) and the
\* update() is issued.
PollQuery(c) ==
    /\ calls[c].kind = "poll" /\ calls[c].pc = "query"
    /\ LET call == calls[c]
           found == {i \in 1..Len(payments) :
                       payments[i].grant_id = call.body.transactionId}
       IN \/ /\ found = {}
             /\ Step(c, Respond(call, 200, "", call.response))
          \/ \E i \in found :
               Step(c,
                  IF ~HasData(call.response) THEN PollFailed(call, TypeError)
                  ELSE [call EXCEPT !.pc = "update", !.id = i])
          \/ Step(c, PollFailed(call, StoreError))
    /\ UNCHANGED <<accessToken, tokenExpiry, now, withdrawals, payments, clock,
                   sendMoneyCalls>>

\* Lines 147-163: update() completes and the gateway's reply is returned,
\* or update() fails and the catch block reports it.
PollUpdate(c) ==
    /\ calls[c].kind = "poll" /\ calls[c].pc = "update"
    /\ LET call == calls[c] IN
       \/ /\ payments' = [payments EXCEPT ![call.id] =
                StatusUpdate(@, <<clock>>, call.body.transactionId, call.response)]
          /\ clock' = clock + 1
          /\ Step(c, Respond(call, 200, "", call.response))
       \/ /\ Step(c, PollFailed(call, StoreError))
          /\ UNCHANGED <<payments, clock>>
    /\ UNCHANGED <<accessToken, tokenExpiry, now, withdrawals, sendMoneyCalls>>

(***************************************************************************)
(* The payment flows: the payment-create and status-poll routes.           *)
(***************************************************************************)
NextPay ==
    \/ Tick(TokenTTL)
    \/ \E c \in Calls :
       \/ \E body \in PaymentBodies : PayCreateStart(c, body)
       \/ PayCreateToken(c)
       \/ PayCreateTransaction(c)
       \/ PayCreateAdd(c)
       \/ \E g \in GrantIds : PollStart(c, g)
       \/ PollToken(c)
       \/ PollTransaction(c)
       \/ PollQuery(c)
       \/ PollUpdate(c)

SpecPay == Init /\ [][NextPay]_vars

(***************************************************************************)
(* The create route alone, with every body of WithdrawalBodies.            *)
(***************************************************************************)
NextCreate ==
    \/ Tick(TokenTTL)
    \/ \E c \in Calls :
       \/ \E body \in WithdrawalBodies : CreateStart(c, body)
       \/ CreateToken(c)
       \/ CreateVerify(c)
       \/ CreateAdd(c)

SpecCreate == Init /\ [][NextCreate]_vars

(***************************************************************************)
(* GET /api/admin/stats, lines 486-511.                                    *)
(***************************************************************************)
\* The status fields of the documents of the collection, in document order.
Statuses == [i \in 1..Len(withdrawals) |-> withdrawals[i].status]

\* Lines 491-494: what query q reads when the store serves it: every
\* document, or the documents with the status q.
Snapshot(q) ==
    IF q = "total" THEN Statuses
    ELSE SelectSeq(Statuses, LAMBDA st : st = q)

\* Lines 499-505: the counts of the response, from the four snapshots.
StatsData(snaps) ==
    [total |-> Len(snaps["total"][1]),
     pending |-> Len(snaps["pending"][1]),
     approved |-> Len(snaps["approved"][1]),
     rejected |-> Len(snaps["rejected"][1]),
     failed |-> Len(SelectSeq(snaps["total"][1], LAMBDA st : st = "failed"))]

\* Lines 507-510: the catch block.
StatsFailed(call) == Respond(call, 500, "Failed to fetch statistics", Undefined)

\* Lines 488-495: the four get() are issued together, Promise.all awaits them.
StatsStart(c) ==
    /\ CanStart(c)
    /\ Step(c, Invoke("stats", 0, NoBody, "queries"))
    /\ UNCHANGED <<accessToken, tokenExpiry, now, withdrawals, payments, clock,
                   sendMoneyCalls>>

\* Lines 490-510: the store serves query q, or fails it.  Promise.all
\* resolves when the last of the four has resolved, and the handler answers
\* with the counts StatsData of the call's snapshots; it rejects as soon as
\* one query fails.
StatsQuery(c, q) ==
    /\ calls[c].kind = "stats" /\ calls[c].pc = "queries"
    /\ calls[c].snaps[q] = <<>>
    /\ \/ LET new == [calls[c] EXCEPT !.snaps[q] = <<Snapshot(q)>>] IN
          Step(c,
             IF \A r \in StatsQueries : new.snaps[r] # <<>>
             THEN Respond(new, 200, "", Obj(<<"stats">>))
             ELSE new)
       \/ Step(c, StatsFailed(calls[c]))
    /\ UNCHANGED <<accessToken, tokenExpiry, now, withdrawals, payments, clock,
                   sendMoneyCalls>>

\* The stats route called while the workflow runs.
NextStats ==
    \/ Next
    \/ \E c \in Calls :
       \/ StatsStart(c)
       \/ \E q \in StatsQueries : StatsQuery(c, q)

SpecStats == Init /\ [][NextStats]_vars

(***************************************************************************)
(* POST /api/verify-receiver, lines 199-228: the plainest caller of        *)
(* getAccessToken.                                                         *)
(***************************************************************************)
VerifyBodies == { NoBody, [NoBody EXCEPT !.email_or_phone = Str(<<"a@b.ht">>)] }

\* Lines 221-227: the catch block.
VerifyFailed(call, e) ==
    Respond(call, 500, "Failed to verify receiver", Details(e))

\* Lines 201-209: validation; getAccessToken() up to its await, or with a
\* cached token on to the verify-receiver request.
VerifyStart(c, body) ==
    /\ CanStart(c)
    /\ LET call == Invoke("verify", 0, body, "post") IN
       Step(c,
          IF ~Truthy(body.email_or_phone)
            THEN Respond(call, 400, "Email or phone is required", Undefined)
          ELSE IF TokenCached THEN [call EXCEPT !.token = accessToken]
          ELSE [call EXCEPT !.pc = "token"])
    /\ UNCHANGED <<accessToken, tokenExpiry, now, withdrawals, payments, clock,
                   sendMoneyCalls>>

\* Lines 207-209: the token request completes; on success the
\* verify-receiver request is issued with the new token.
VerifyToken(c) ==
    /\ calls[c].kind = "verify" /\ calls[c].pc = "token"
    /\ \E o \in TokenOutcomes :
         /\ TokenReply(o)
         /\ Step(c,
              IF o.ok THEN [calls[c] EXCEPT !.pc = "post", !.token = IssuedToken]
              ELSE VerifyFailed(calls[c], o.error))
    /\ UNCHANGED <<now, withdrawals, payments, clock, sendMoneyCalls>>

\* Lines 209-227: POST send-money/verify-receiver completes and its body is
\* returned as it is.
VerifyPost(c) ==
    /\ calls[c].kind = "verify" /\ calls[c].pc = "post"
    /\ \/ \E data \in {SuccessBody, ErrorBody} :
            Step(c,
               [Respond(calls[c], 200, "", data)
                  EXCEPT !.response = data, !.gateway = "resolved"])
       \/ \E e \in GatewayFailures :
            Step(c, [VerifyFailed(calls[c], e) EXCEPT !.gateway = "rejected"])
    /\ UNCHANGED <<accessToken, tokenExpiry, now, withdrawals, payments, clock,
                   sendMoneyCalls>>

\* Calls of the verify-receiver route while the hours pass one by one.
NextToken ==
    \/ Tick(1)
    \/ \E c \in Calls :
       \/ \E body \in VerifyBodies : VerifyStart(c, body)
       \/ VerifyToken(c)
       \/ VerifyPost(c)

SpecToken == Init /\ [][NextToken]_vars

(***************************************************************************)
(* Properties of the withdrawal workflow (Spec).                           *)
(***************************************************************************)
Terminal == {"approved", "rejected", "failed"}
AdminKinds == {"approve", "reject"}

\* C1: of the Approve and Reject calls made on one withdrawal id, at most
\* one responds with success (200), however the calls interleave.
C1_AtMostOneSuccess ==
    \A id \in Ids : successes[id].approve + successes[id].reject <= 1

\* C2: for every withdrawal id the payout request POST send-money/create is
\* issued at most once, over any sequence or interleaving of Approve and
\* Reject calls, store failures included.
C2_PayoutAtMostOnce ==
    \A id \in Ids : sendMoneyCalls[id] <= 1

\* C3: terminal statuses are absorbing: no step of any call changes the
\* status of a record that is approved, rejected or failed.
C3_TerminalAbsorbing ==
    [][\A id \in 1..Len(withdrawals) :
          withdrawals[id].status \in Terminal
            => withdrawals'[id].status = withdrawals[id].status]_vars

\* C4: an Approve or Reject call that started after the record's status
\* left pending causes no state change: none of its steps writes a field of
\* the record or issues a gateway call.
C4_LateCallChangesNothing ==
    [][\A c \in Calls :
          (/\ calls[c].kind \in AdminKinds
           /\ calls[c].startStatus \in Terminal
           /\ calls'[c] # calls[c])
            => /\ withdrawals' = withdrawals
               /\ sendMoneyCalls' = sendMoneyCalls]_vars

\* C5 as stated: an Approve call that observed a pending record and whose
\* payout request failed has responded 500 with the cause and has left the
\* record failed, with processed_at and error_message set.
C5_FailedPayoutLeavesFailed ==
    (last.kind = "approve" /\ last.gateway = "rejected")
      => /\ last.res.code = 500
         /\ withdrawals[last.id].status = "failed"
         /\ withdrawals[last.id].processed_at # <<>>
         /\ Truthy(withdrawals[last.id].error_message)

\* C5, amended: when the payout request of an Approve call fails (the axios
\* request rejects), the call ends by responding 500 with the original
\* cause as details; its compensating write, when it takes effect, sets
\* status failed, processed_at to the server time and error_message to the
\* cause's message, and when it does not, the record is left as it was.
C5_CompensatingWrite ==
    [][\A c \in Calls :
          (/\ calls[c].kind = "approve"
           /\ calls[c].gateway = "rejected"
           /\ calls'[c] # calls[c])
            => LET id == calls[c].id
                   e == calls[c].error
               IN /\ e \in GatewayFailures
                  /\ last'.kind = "approve" /\ last'.id = id
                  /\ last'.res = [code |-> 500,
                                  error |-> "Failed to process withdrawal",
                                  payload |-> Details(e)]
                  /\ \/ withdrawals' = withdrawals
                     \/ /\ withdrawals'[id].status = "failed"
                        /\ withdrawals'[id].processed_at = <<clock>>
                        /\ withdrawals'[id].error_message = ErrorMessage(e)
                        /\ Truthy(withdrawals'[id].error_message)
                        /\ \A j \in 1..Len(withdrawals) :
                              j # id => withdrawals'[j] = withdrawals[j]]_vars

\* C5 happens: an Approve call whose payout request was rejected has
\* responded 500 and the record is failed with the gateway's message.
C5_Witness ==
    /\ last.kind = "approve" /\ last.gateway = "rejected"
    /\ last.res.code = 500 /\ last.res.payload = ErrorBody
    /\ withdrawals[last.id].status = "failed"
    /\ withdrawals[last.id].error_message = Str(<<"Insufficient balance">>)

\* C6: a record on which a Reject call succeeded has a rejection_reason and
\* has neither ezipay_response nor error_message.
C6_RejectedRecordClean ==
    \A id \in Ids :
       successes[id].reject > 0
         => /\ Truthy(withdrawals[id].rejection_reason)
            /\ withdrawals[id].ezipay_response = Undefined
            /\ withdrawals[id].error_message = Undefined

\* C7: processed_at is null while the status is pending, and it is written
\* at most once: no step changes a processed_at that is set.
C7_ProcessedAtWrittenOnce ==
    /\ [](\A id \in 1..Len(withdrawals) :
            withdrawals[id].status = "pending" => withdrawals[id].processed_at = <<>>)
    /\ [][\A id \in 1..Len(withdrawals) :
            withdrawals[id].processed_at # <<>>
              => withdrawals'[id].processed_at = withdrawals[id].processed_at]_vars

(***************************************************************************)
(* Properties of the create route (SpecCreate).                            *)
(***************************************************************************)
\* C8: a Create call whose verify-receiver reply has a status other than
\* success responds 400 'Invalid receiver' and goes no further, and the
\* withdrawals collection grows only in the step in which a Create call
\* whose receiver was verified responds with success.
C8_InvalidReceiver ==
    /\ [](/\ \A c \in Calls :
               (calls[c].kind = "create" /\ calls[c].gateway = "resolved")
                 => BodyStatus(calls[c].response) = "success"
          /\ (/\ last.kind = "create"
              /\ last.gateway = "resolved"
              /\ BodyStatus(last.response) # "success")
               => /\ last.res = [code |-> 400, error |-> "Invalid receiver",
                                 payload |-> Undefined]
                  /\ last.id = 0)
    /\ [][withdrawals' # withdrawals
            => /\ last'.kind = "create" /\ last'.res.code = 200
               /\ BodyStatus(last'.response) = "success"
               /\ last'.id = Len(withdrawals')
               /\ SubSeq(withdrawals', 1, Len(withdrawals)) = withdrawals]_vars

\* C8 happens: a Create call got a reply with status error and responded 400.
C8_Witness ==
    /\ last.kind = "create" /\ last.gateway = "resolved"
    /\ BodyStatus(last.response) = "error"
    /\ last.res.code = 400

\* The bodies C9 is about: amount is the number 0, or currency is missing.
ZeroAmountOrNoCurrency(body) ==
    \/ body.amount = Num(0)
    \/ body.currency \in {Undefined, Str(<<>>)}

PayKinds == {"pay_create", "poll"}

TokenRequestFailed(c) ==
    /\ calls[c].pc = "token"
    /\ calls'[c].pc \in {"idle", "catch_update"}

\* What a failed token request throws, as the caller reports it.
TokenFailureDetails == {Details(e) : e \in GatewayFailures \cup {TokenError}}

\* C11 as stated: when the token request fails, the error is propagated, the
\* cache is left unchanged, and the next getAccessToken call issues a new
\* token request (no valid token is cached).
C11_NextCallRequests ==
    [][\A c \in Calls :
          TokenRequestFailed(c)
            => /\ accessToken' = accessToken /\ tokenExpiry' = tokenExpiry
               /\ last'.res.code = 500
               /\ last'.res.payload \in TokenFailureDetails
               /\ ~TokenCached']_vars

\* C11, amended: when the token request fails, the error is propagated to
\* the caller (HTTP 500 with the cause) and the cache is left unchanged: a
\* cache that held no valid token before the failure holds none after it.
\* Every getAccessToken call made while no valid token is cached issues a
\* token request.  (A token that another call obtained while the failing
\* request was in flight stays cached and is returned without a request.)
C11_FailureKeepsCache ==
    /\ [][\A c \in Calls :
            TokenRequestFailed(c)
              => /\ accessToken' = accessToken /\ tokenExpiry' = tokenExpiry
                 /\ last'.res.code = 500
                 /\ last'.res.payload \in TokenFailureDetails
                 /\ (accessToken = Null \/ tokenExpiry = <<>>
                       \/ now >= tokenExpiry[1]) => ~TokenCached']_vars
    /\ [][\A c \in Calls :
            (/\ calls[c].pc = "idle" /\ calls'[c].pc \in {"post", "token"}
             /\ (accessToken = Null \/ tokenExpiry = <<>> \/ now >= tokenExpiry[1]))
              => calls'[c].pc = "token"]_vars

\* C11 happens: the refresh of an expired token failed, the caller got 500
\* with the cause, and the expired token is still in the cache.
C11_Witness ==
    /\ last.kind = "verify" /\ last.gateway = ""
    /\ last.res.code = 500 /\ last.res.payload \in TokenFailureDetails
    /\ accessToken # Null /\ tokenExpiry # <<>> /\ now >= tokenExpiry[1]
    /\ \A c \in Calls : calls[c].pc = "idle"

\* C12: a getAccessToken call made while a token is cached and the time is
\* before its expiry returns that token, issues no token request and leaves
\* the cache alone; a token request is issued only when no token is cached
\* or the time is at or past the expiry; a token that is issued is cached
\* with the expiry two hours after its issuance.
C12_CachedTokenReused ==
    /\ [][\A c \in Calls :
            (calls[c].pc = "idle" /\ calls'[c].pc \in {"post", "token"})
              => /\ accessToken' = accessToken /\ tokenExpiry' = tokenExpiry
                 /\ IF accessToken # Null /\ tokenExpiry # <<>>
                       /\ now < tokenExpiry[1]
                    THEN calls'[c].pc = "post" /\ calls'[c].token = accessToken
                    ELSE calls'[c].pc = "token"]_vars
    /\ [][\A c \in Calls :
            (calls[c].pc = "token" /\ calls'[c].pc = "post")
              => /\ tokenExpiry' = <<now + 2>>
                 /\ accessToken' = calls'[c].token
                 /\ accessToken'.t = "string"]_vars

\* C12 happens: an hour after the token was issued, and an hour before its
\* expiry, a later call holds the cached token for its gateway request.
C12_Witness ==
    /\ now = 1 /\ tokenExpiry = <<2>>
    /\ last.kind = "verify" /\ last.res.code = 200
    /\ started = 2
    /\ \E c \in Calls : calls[c].pc = "post" /\ calls[c].token = accessToken

(***************************************************************************)
(* More properties of the withdrawal workflow (Spec).                      *)
(***************************************************************************)
\* The call in slot c is an Approve call on id that takes this step.
ApproveActs(c, id) ==
    /\ calls[c].kind = "approve" /\ calls[c].id = id
    /\ calls'[c] # calls[c]

\* This step writes the document id to the status st.
Writes(id, st) ==
    /\ id \in 1..Len(withdrawals)
    /\ withdrawals'[id] # withdrawals[id]
    /\ withdrawals'[id].status = st

\* This step adds a document, and it is a Create call whose verifyReceiver
\* request has returned success that adds it.
AddAfterVerify ==
    Len(withdrawals') > Len(withdrawals)
      => \E c \in Calls :
            /\ calls[c].kind = "create" /\ calls[c].pc = "add"
            /\ calls[c].gateway = "resolved"
            /\ BodyStatus(calls[c].response) = "success"
            /\ calls'[c].pc = "idle"

\* A write to approved is made by an Approve call whose createSendMoney
\* request has returned.
ApprovedAfterSendMoney ==
    \A id \in Ids :
       Writes(id, "approved")
         => \E c \in Calls : ApproveActs(c, id) /\ calls[c].gateway = "resolved"

\* C13: a record is added only after verifyReceiver has returned for that
\* Create call, and an Approve call writes a record to approved or to failed
\* only after its createSendMoney request has returned or failed.
C13_WriteAfterGateway ==
    [][/\ AddAfterVerify
       /\ ApprovedAfterSendMoney
       /\ \A id \in Ids :
             Writes(id, "failed")
               => \E c \in Calls :
                     /\ ApproveActs(c, id)
                     /\ calls[c].gateway \in {"resolved", "rejected"}]_vars

\* C14: a record is approved only if the createSendMoney request made for it
\* returned a success result: the gateway reply stored in an approved record
\* has the status success.
C14_ApprovedOnlyOnSuccess ==
    \A id \in 1..Len(withdrawals) :
       withdrawals[id].status = "approved"
         => BodyStatus(withdrawals[id].ezipay_response) = "success"

\* C15: a successful payout is never lost: when an Approve call whose
\* createSendMoney request returned success responds, the record is neither
\* failed nor still pending.
C15_PayoutNeverLost ==
    [][\A c \in Calls :
          (/\ calls[c].kind = "approve"
           /\ calls[c].gateway = "resolved"
           /\ BodyStatus(calls[c].response) = "success"
           /\ calls'[c].pc = "idle")
            => withdrawals'[calls[c].id].status \notin {"failed", "pending"}]_vars

\* C17: processed_by is null exactly when the record has not been processed:
\* an approved, rejected or failed record has a non-null processed_by, and a
\* pending record has processed_by null.
C17_ProcessedByIffProcessed ==
    \A id \in 1..Len(withdrawals) :
       /\ withdrawals[id].status \in Terminal
            => withdrawals[id].processed_by \notin {Null, Undefined}
       /\ withdrawals[id].status = "pending"
            => withdrawals[id].processed_by = Null

\* C19: a record is pending if and only if its processed_at is null: every
\* write that moves the status away from pending sets processed_at, and no
\* write sets processed_at while it leaves the status pending.
C19_PendingIffNotProcessed ==
    /\ [](\A id \in 1..Len(withdrawals) :
            withdrawals[id].status = "pending"
              <=> withdrawals[id].processed_at = <<>>)
    /\ [][\A id \in 1..Len(withdrawals) :
            /\ (withdrawals[id].status = "pending"
                  /\ withdrawals'[id].status # "pending")
                 => withdrawals'[id].processed_at # <<>>
            /\ withdrawals'[id].processed_at # withdrawals[id].processed_at
                 => withdrawals'[id].status # "pending"]_vars

\* C19 happens: a Reject call moved a pending record to rejected and set its
\* processed_at.
C19_Witness ==
    /\ last.kind = "reject" /\ last.res.code = 200
    /\ Len(withdrawals) = 1
    /\ withdrawals[1].status = "rejected"
    /\ withdrawals[1].processed_at # <<>>
    /\ withdrawals[1].created_at # <<>>

\* C20: when every gateway and store call settles, every Approve call sends
\* a response; and an Approve call that observed the record as pending and
\* whose store writes succeeded has written it to approved or to failed and
\* does not leave it pending: when it responds the record has a terminal
\* status.
C20_ApproveCompletes ==
    /\ \A c \in Calls :
          (calls[c].kind = "approve") ~> (calls[c].pc = "idle")
    /\ [][\A c \in Calls :
            (/\ calls[c].kind = "approve"
             /\ calls[c].withdrawal # NoDoc
             /\ calls'[c].pc = "idle"
             /\ ~(calls[c].pc = "catch_update" /\ withdrawals' = withdrawals))
              => /\ withdrawals'[calls[c].id].status \in Terminal
                 /\ calls[c].pc = "catch_update"
                      => withdrawals'[calls[c].id].status = "failed"]_vars
    /\ [][\A c \in Calls :
            (/\ calls[c].kind = "approve"
             /\ calls[c].pc = "update" /\ calls'[c].pc = "reget")
              => withdrawals'[calls[c].id].status = "approved"]_vars

\* C20 happens: an Approve call that observed the record as pending, and
\* whose payout request was rejected, has responded and left it failed.
C20_Witness ==
    /\ last.kind = "approve" /\ last.startStatus = "pending"
    /\ last.gateway = "rejected" /\ last.res.code = 500
    /\ last.res.payload = Details(NetworkError)
    /\ withdrawals[last.id].status = "failed"
    /\ \A c \in Calls : calls[c].pc = "idle"
    /\ started = 2

(***************************************************************************)
(* More properties of the create route (SpecCreate).                       *)
(***************************************************************************)
\* v is a positive integer.
PositiveInteger(v) == v.t = "number" /\ v # NaN /\ v.n > 0

\* C16: every record persisted by Create withdrawal has amount a positive
\* integer and payment_method_id a positive integer.
C16_PositiveIntegers ==
    \A id \in 1..Len(withdrawals) :
       /\ PositiveInteger(withdrawals[id].amount)
       /\ PositiveInteger(withdrawals[id].payment_method_id)

(***************************************************************************)
(* Properties of the stats route (SpecStats).                              *)
(***************************************************************************)
\* C18: every Stats response satisfies total = pending + approved +
\* rejected + failed, also when Create, Approve or Reject calls run between
\* the store queries of the Stats call.
C18_StatsAddUp ==
    (last.kind = "stats" /\ last.res.code = 200)
      => LET data == StatsData(last.snaps)
         IN data.total = data.pending + data.approved + data.rejected
                           + data.failed
====
